---- MODULE Spec2Model ----
(***************************************************************************)
(* Kernel-density core of kwat.py / kraft:                                 *)
(*   src/kraft/make_vector_grid.py                                         *)
(*   src/kraft/estimate_element_x_dimension_kernel_density.py              *)
(* and the drop loop of kwat:                                              *)
(*   src/kwat/dataframe/drop_until.py                                      *)
(*                                                                         *)
(* Numbers.  A Python/numpy float is modelled as a pair <<n, d>> with      *)
(* d >= 0, kept in lowest terms: d > 0 is the exact rational n/d, and      *)
(* d = 0 holds the IEEE specials: <<0,0>> is NaN, <<1,0>> is +inf and      *)
(* <<-1,0>> is -inf.  Arithmetic is exact (no rounding), and follows IEEE   *)
(* for the specials (x/0, inf - inf, 0 * inf, comparisons with NaN).       *)
(*                                                                         *)
(* Optional arguments.  Python's None is the empty tuple and a supplied    *)
(* value v is the one-element tuple <<v>>.                                 *)
(***************************************************************************)
EXTENDS Integers, Sequences, FiniteSets, TLC

(***************************************************************************)
(* Bounds of the model.                                                    *)
(***************************************************************************)
\* longest vector handed to make_vector_grid on its own
MaxVectorLen == 2
\* largest n_grid handed to make_vector_grid on its own
MaxNGrid == 5
\* most rows of the Sample Matrix
MaxRows == 2
\* most rows of the table handed to drop_until
MaxDropRows == 2
\* most columns of the table handed to drop_until
MaxDropColumns == 3

(***************************************************************************)
(* Floats.                                                                 *)
(***************************************************************************)
None == << >>

Some(v) == << v >>

Get(o) == o[1]

Abs(i) == IF i < 0 THEN -i ELSE i

Sign(i) == IF i < 0 THEN -1 ELSE IF i > 0 THEN 1 ELSE 0

RECURSIVE GCD(_, _)
GCD(a, b) == IF b = 0 THEN a ELSE GCD(b, a % b)

\* the float n/d (d >= 0) in lowest terms
Float(n, d) ==
    IF d = 0 THEN << Sign(n), 0 >>
    ELSE LET g == GCD(Abs(n), d) IN << n \div g, d \div g >>

FromInt(i) == << i, 1 >>

NaN == << 0, 0 >>

IsNaN(a) == a = NaN

IsFinite(a) == a[2] > 0

IsInf(a) == a[2] = 0 /\ a[1] # 0

\* a + b
FAdd(a, b) ==
    IF IsInf(a) /\ IsInf(b) THEN (IF a = b THEN a ELSE NaN)
    ELSE Float(a[1] * b[2] + b[1] * a[2], a[2] * b[2])

\* -a
FNeg(a) == << -a[1], a[2] >>

\* a - b
FSub(a, b) == FAdd(a, FNeg(b))

\* a * b
FMul(a, b) == Float(a[1] * b[1], a[2] * b[2])

\* a / b, numpy's: x/0 is +-inf, 0/0 is NaN
FDiv(a, b) ==
    IF b[1] < 0 THEN Float(-(a[1] * b[2]), a[2] * (-b[1]))
    ELSE Float(a[1] * b[2], a[2] * b[1])

\* a < b, false when either is NaN
FLt(a, b) ==
    IF IsNaN(a) \/ IsNaN(b) THEN FALSE
    ELSE IF IsInf(a) /\ IsInf(b) THEN a[1] < b[1]
    ELSE a[1] * b[2] < b[1] * a[2]

\* a <= b, false when either is NaN
FLe(a, b) == FLt(a, b) \/ (~IsNaN(a) /\ a = b)

\* numpy.maximum: NaN when either is NaN
FMaximum(a, b) ==
    IF IsNaN(a) \/ IsNaN(b) THEN NaN
    ELSE IF FLt(a, b) THEN b ELSE a

\* abs(a)
FAbs(a) == << Abs(a[1]), a[2] >>

(***************************************************************************)
(* Library constants (kraft/DIMENSION_FRACTION_GRID_EXTENSION.py,          *)
(* kraft/DIMENSION_N_GRID.py, kraft/ALMOST_ZERO.py: not among the source   *)
(* files; values after the specification's section 4.2 and 3, the grid     *)
(* resolution scaled down from "e.g. 100").                                *)
(***************************************************************************)
DIMENSION_FRACTION_GRID_EXTENSION == << 1, 10 >>

DIMENSION_N_GRID == 3

ALMOST_ZERO == << 1, 1000 >>

(***************************************************************************)
(* numpy.linspace(start, stop, num): num < 0 raises ValueError; otherwise   *)
(* y = arange(num) * step + start with step = (stop - start) / (num - 1),  *)
(* and y[-1] = stop when num > 1.  Sequences are 1-based here: y[k] is the *)
(* point of index k - 1.                                                   *)
(***************************************************************************)
\* linspace_point dividing by num where the code divides by num - 1
linspace_point_step_by_num(start, stop, num, k) ==
    LET delta == FSub(stop, start)
    IN  IF num > 1 /\ k = num THEN stop
        ELSE IF num - 1 > 0
             THEN FAdd(FMul(FromInt(k - 1), FDiv(delta, FromInt(num))), start)
             ELSE FAdd(FMul(FromInt(k - 1), delta), start)

linspace_point(start, stop, num, k) ==
    LET div == num - 1
        delta == FSub(stop, start)
    IN  IF num > 1 /\ k = num THEN stop
        ELSE IF div > 0
             THEN FAdd(FMul(FromInt(k - 1), FDiv(delta, FromInt(div))), start)
             ELSE FAdd(FMul(FromInt(k - 1), delta), start)

linspace(start, stop, num) ==
    IF num < 0 THEN [err |-> TRUE, grid |-> << >>]
    ELSE [err |-> FALSE,
          grid |-> [k \in 1..num |-> linspace_point(start, stop, num, k)]]

\* vector.min(): the least element (a ValueError on an empty vector is the
\* caller's case)
vector_min(vector) ==
    CHOOSE m \in {vector[k] : k \in 1..Len(vector)} :
        \A k \in 1..Len(vector) : m <= vector[k]

\* vector.max()
vector_max(vector) ==
    CHOOSE m \in {vector[k] : k \in 1..Len(vector)} :
        \A k \in 1..Len(vector) : m >= vector[k]

\* grid_extension_of taking the fraction itself, the range forgotten
grid_extension_without_range(lo, hi, fraction) == fraction

\* grid_extension = grid_range * fraction_grid_extension
grid_extension_of(lo, hi, fraction) == FMul(FSub(hi, lo), fraction)

\* make_vector_grid refusing a column whose range is zero
make_vector_grid_refusing_zero_range(vec, gmin, gmax, fraction, n) ==
    IF (gmin = None \/ gmax = None) /\ Len(vec) = 0
    THEN [err |-> TRUE, grid |-> << >>]
    ELSE LET lo == FromInt(IF gmin = None THEN vector_min(vec) ELSE Get(gmin))
             hi == FromInt(IF gmax = None THEN vector_max(vec) ELSE Get(gmax))
             ext == grid_extension_of(lo, hi, fraction)
         IN  IF lo = hi THEN [err |-> TRUE, grid |-> << >>]
             ELSE linspace(FSub(lo, ext), FAdd(hi, ext), n)

(***************************************************************************)
(* make_vector_grid(vector, grid_min, grid_max, fraction_grid_extension,   *)
(* n_grid).  vector is a sequence of integers, grid_min / grid_max are     *)
(* None or Some(integer), the fraction is a float.                         *)
(***************************************************************************)
make_vector_grid(vec, gmin, gmax, fraction, n) ==
    IF (gmin = None \/ gmax = None) /\ Len(vec) = 0
    THEN [err |-> TRUE, grid |-> << >>]
    ELSE LET lo == FromInt(IF gmin = None THEN vector_min(vec) ELSE Get(gmin))
             hi == FromInt(IF gmax = None THEN vector_max(vec) ELSE Get(gmax))
             ext == grid_extension_of(lo, hi, fraction)
         IN  linspace(FSub(lo, ext), FAdd(hi, ext), n)

(***************************************************************************)
(* The Sample Matrix element_x_dimension is held by columns: a sequence of *)
(* n_dimension columns, each a sequence of the n element values, so that   *)
(* element_x_dimension[:, i] is x[i + 1] and shape[1] is Len(x).           *)
(***************************************************************************)
n_dimension_of(x) == Len(x)

n_element_of(x) == Len(x[1])

Tup(L, v) == [i \in 1..L |-> v]

(***************************************************************************)
(* compute_vector_bandwidth (kraft/compute_vector_bandwidth.py, not among  *)
(* the source files), after the specification's section 4.1: a positive    *)
(* scalar that widens with the spread and shrinks as n grows, with a small *)
(* positive floor where the rule would give zero or a non-finite value     *)
(* (a constant or empty column).                                           *)
(***************************************************************************)
BANDWIDTH_FLOOR == << 1, 4 >>

compute_vector_bandwidth(vec) ==
    IF Len(vec) = 0 THEN BANDWIDTH_FLOOR
    ELSE LET spread == vector_max(vec) - vector_min(vec)
         IN  IF spread = 0 THEN BANDWIDTH_FLOOR ELSE Float(spread, Len(vec))

\* chosen_bandwidths estimating every time, supplied bandwidths ignored
chosen_bandwidths_always_estimated(x, bandwidths) ==
    [i \in 1..n_dimension_of(x) |-> compute_vector_bandwidth(x[i])]

(***************************************************************************)
(* Lines 26-31: the bandwidths supplied, else one estimate per column.     *)
(***************************************************************************)
chosen_bandwidths(x, bandwidths) ==
    IF bandwidths = None
    THEN [i \in 1..n_dimension_of(x) |-> compute_vector_bandwidth(x[i])]
    ELSE Get(bandwidths)

(***************************************************************************)
(* Lines 33-38: with factors given, bandwidths[i] * factors[i] for i in    *)
(* range(n_dimension); an IndexError when either tuple is shorter.         *)
(***************************************************************************)
scaled_bandwidths(x, bws, factors) ==
    IF factors = None THEN [err |-> FALSE, val |-> bws]
    ELSE IF Len(bws) < n_dimension_of(x) \/ Len(Get(factors)) < n_dimension_of(x)
    THEN [err |-> TRUE, val |-> << >>]
    ELSE [err |-> FALSE,
          val |-> [i \in 1..n_dimension_of(x) |-> FMul(bws[i], Get(factors)[i])]]

\* resolve_bandwidths scaling only the estimated bandwidths by the factors
resolve_bandwidths_scaling_estimates_only(x, bandwidths, factors) ==
    IF bandwidths = None
    THEN scaled_bandwidths(x, chosen_bandwidths(x, bandwidths), factors)
    ELSE [err |-> FALSE, val |-> Get(bandwidths)]

\* lines 26-38 together
resolve_bandwidths(x, bandwidths, factors) ==
    scaled_bandwidths(x, chosen_bandwidths(x, bandwidths), factors)

(***************************************************************************)
(* Lines 40-56: an omitted grid option becomes its default, repeated       *)
(* n_dimension times.                                                      *)
(***************************************************************************)
option_or_default(x, option, default) ==
    IF option = None THEN Tup(n_dimension_of(x), default) ELSE Get(option)

\* dimension_grid_calls reading every dimension's n_grid at index 0
dimension_grid_calls_first_n_grid(x, mins, maxs, fractions, n_grids) ==
    [i \in 1..n_dimension_of(x) |->
        IF Len(mins) < i \/ Len(maxs) < i \/ Len(fractions) < i \/ Len(n_grids) < i
        THEN [err |-> TRUE, grid |-> << >>]
        ELSE make_vector_grid(x[i], mins[i], maxs[i], fractions[i], n_grids[1])]

(***************************************************************************)
(* Lines 59-68: one make_vector_grid call per dimension, indexing every    *)
(* option tuple at i (an IndexError when one is shorter than n_dimension). *)
(***************************************************************************)
dimension_grid_calls(x, mins, maxs, fractions, n_grids) ==
    [i \in 1..n_dimension_of(x) |->
        IF Len(mins) < i \/ Len(maxs) < i \/ Len(fractions) < i \/ Len(n_grids) < i
        THEN [err |-> TRUE, grid |-> << >>]
        ELSE make_vector_grid(x[i], mins[i], maxs[i], fractions[i], n_grids[i])]

(***************************************************************************)
(* make_mesh_grid_point_x_dimension (not among the source files), after    *)
(* the specification's section 4.3: the Cartesian product of the grids as  *)
(* a sequence of points, in a fixed order (first dimension slowest).       *)
(***************************************************************************)
RECURSIVE product_of_lengths(_, _)
product_of_lengths(grids, from) ==
    IF from > Len(grids) THEN 1
    ELSE Len(grids[from]) * product_of_lengths(grids, from + 1)

make_mesh_grid_point_x_dimension(grids) ==
    [k \in 1..product_of_lengths(grids, 1) |->
        [i \in 1..Len(grids) |->
            grids[i][(((k - 1) \div product_of_lengths(grids, i + 1))
                      % Len(grids[i])) + 1]]]

(***************************************************************************)
(* FFTKDE(bw=bandwidths).fit(x).evaluate(mesh) (KDEpy, an external         *)
(* library), after the specification's section 4.4 step 5: the product     *)
(* kernel estimate (1/n) * sum over rows of prod over dimensions of        *)
(* K((p[i] - row[i]) / bw[i]) / bw[i], in float arithmetic.  K is the      *)
(* triangular kernel max(0, 1 - |u|), a rational stand-in for the Gaussian *)
(* whose far tails likewise evaluate to exactly 0.  fit raises on an empty *)
(* sample and on a bandwidth tuple whose length is not n_dimension.        *)
(***************************************************************************)
kernel(u) == FMaximum(FromInt(0), FSub(FromInt(1), FAbs(u)))

RECURSIVE row_kernel(_, _, _, _, _)
row_kernel(x, bws, point, r, i) ==
    IF i > Len(x) THEN FromInt(1)
    ELSE FMul(FDiv(kernel(FDiv(FSub(point[i], FromInt(x[i][r])), bws[i])), bws[i]),
              row_kernel(x, bws, point, r, i + 1))

RECURSIVE sum_of_rows(_, _, _, _)
sum_of_rows(x, bws, point, r) ==
    IF r > n_element_of(x) THEN FromInt(0)
    ELSE FAdd(row_kernel(x, bws, point, r, 1), sum_of_rows(x, bws, point, r + 1))

kernel_density_at(x, bws, point) ==
    FDiv(sum_of_rows(x, bws, point, 1), FromInt(n_element_of(x)))

fftkde_raises(x, bws) == n_element_of(x) = 0 \/ Len(bws) # n_dimension_of(x)

fftkde_evaluate(x, bws, mesh) ==
    [k \in 1..Len(mesh) |-> kernel_density_at(x, bws, mesh[k])]

(***************************************************************************)
(* Line 77: ndarray.clip(min=ALMOST_ZERO), which is numpy.maximum(value,   *)
(* ALMOST_ZERO) at every entry.                                            *)
(***************************************************************************)
clip_min(values, floor) == [k \in 1..Len(values) |-> FMaximum(values[k], floor)]

\* lines 71-77
evaluate_kernel_density(x, bws, mesh) == clip_min(fftkde_evaluate(x, bws, mesh), ALMOST_ZERO)

(***************************************************************************)
(* estimate_element_x_dimension_kernel_density as one function of its      *)
(* arguments: lines 24-88.  a holds the six optional arguments.  The plot  *)
(* step (lines 79-86) hands the pair to an external plotting collaborator  *)
(* and leaves it as it is.                                                 *)
(***************************************************************************)
Failed == [err |-> TRUE, mesh |-> << >>, density |-> << >>]

estimate_with_grids(x, bws, calls) ==
    IF \E i \in 1..Len(calls) : calls[i].err THEN Failed
    ELSE LET mesh == make_mesh_grid_point_x_dimension(
                         [i \in 1..Len(calls) |-> calls[i].grid])
         IN  IF fftkde_raises(x, bws) THEN Failed
             ELSE [err |-> FALSE, mesh |-> mesh,
                   density |-> evaluate_kernel_density(x, bws, mesh)]

estimate_element_x_dimension_kernel_density(x, a) ==
    LET b == resolve_bandwidths(x, a.dimension_bandwidths, a.dimension_bandwidth_factors)
    IN  IF b.err THEN Failed
        ELSE estimate_with_grids(x, b.val,
                 dimension_grid_calls(x,
                     option_or_default(x, a.dimension_grid_mins, None),
                     option_or_default(x, a.dimension_grid_maxs, None),
                     option_or_default(x, a.dimension_fraction_grid_extensions,
                                       DIMENSION_FRACTION_GRID_EXTENSION),
                     option_or_default(x, a.dimension_n_grids, DIMENSION_N_GRID)))

(***************************************************************************)
(* drop_until (src/kwat/dataframe/drop_until.py).  The 2-D table da is     *)
(* held as the row labels and column labels still kept, over contents that *)
(* never change: table[r][c] is 1 where the cell holds a value and 0 where *)
(* it is missing.                                                          *)
(***************************************************************************)
\* da.shape
shape(d) == << Cardinality(d.rows), Cardinality(d.columns) >>

(***************************************************************************)
(* drop(da, ax, **ke) (kwat/dataframe/drop.py, not among the source        *)
(* files): a deterministic function that only removes slices along axis    *)
(* ax, here the slices holding fewer than ke values among the cells kept.  *)
(***************************************************************************)
drop(tab, d, a, k) ==
    IF a = 0
    THEN [d EXCEPT !.rows =
             {r \in d.rows : Cardinality({c \in d.columns : tab[r][c] = 1}) >= k}]
    ELSE [d EXCEPT !.columns =
             {c \in d.columns : Cardinality({r \in d.rows : tab[r][c] = 1}) >= k}]

\* lines 8-10: the starting axis, int(sh1[0] < sh1[1]) when ax is None
starting_axis(a, sh) ==
    IF a = None THEN (IF sh[1] < sh[2] THEN 1 ELSE 0) ELSE Get(a)

\* returns_now returning when the shape has changed
returns_now_on_change(r, s1, s2) == r /\ s1 # s2

\* returns_now without the re flag
returns_now_without_re(r, s1, s2) == s1 = s2

\* line 20: if re and sh1 == sh2
returns_now(r, s1, s2) == r /\ s1 = s2

\* lines 26-32: axis 0 becomes 1, axis 1 becomes 0, any other axis stays
next_axis(a) == IF a = 0 THEN 1 ELSE IF a = 1 THEN 0 ELSE a

\* the most drop calls counted (the count stays there once reached)
DropCallCap == MaxDropRows + MaxDropColumns + 3

(***************************************************************************)
(* State.  pc is the place of the call in progress.  The first group are   *)
(* make_vector_grid's arguments and result, the second group               *)
(* estimate_element_x_dimension_kernel_density's arguments (args: the six  *)
(* optional ones as the caller passed them) and its local variables.       *)
(***************************************************************************)
VARIABLES pc,
          vector, grid_min, grid_max, fraction_grid_extension, n_grid, grid,
          element_x_dimension, args,
          dimension_bandwidths, dimension_grid_mins, dimension_grid_maxs,
          dimension_fraction_grid_extensions, dimension_n_grids,
          dimension_grids, mesh_grid_point_x_dimension,
          mesh_grid_point_kernel_density,
          table, ke, ax_argument, da, sh1, ax, re, drop_calls

\* drop_until's arguments (table and da, ke, ax_argument), its local
\* variables and the number of drop calls made so far
drop_vars == << table, ke, ax_argument, da, sh1, ax, re, drop_calls >>

grid_vars == << vector, grid_min, grid_max, fraction_grid_extension, n_grid, grid >>

argument_vars == << element_x_dimension, args >>

local_vars == << dimension_bandwidths, dimension_grid_mins, dimension_grid_maxs,
                 dimension_fraction_grid_extensions, dimension_n_grids,
                 dimension_grids, mesh_grid_point_x_dimension,
                 mesh_grid_point_kernel_density >>

vars == << pc, grid_vars, argument_vars, local_vars, drop_vars >>

(***************************************************************************)
(* Inputs.                                                                 *)
(***************************************************************************)
\* element values of a vector handed to make_vector_grid on its own
GridValues == {-2, 0, 10}

\* grid_min / grid_max overrides handed to make_vector_grid on its own
GridOverrides == {None, Some(0), Some(10)}

\* extension fractions handed to make_vector_grid on its own
GridFractions == {<< 0, 1 >>, << 1, 10 >>, << -1, 2 >>, << -1, 1 >>}

\* element values of the Sample Matrix
Values == {0, 2}

Dimensions == {1, 2}

\* row r of x comes no later than row s in lexicographic order
RECURSIVE RowLe(_, _, _, _)
RowLe(x, r, s, i) ==
    IF i > Len(x) THEN TRUE
    ELSE IF x[i][r] # x[i][s] THEN x[i][r] < x[i][s]
    ELSE RowLe(x, r, s, i + 1)

\* The Sample Matrices, one per multiset of rows: the rows are independent
\* observations, read only through each column's min and max and through the
\* sum over all rows, so each multiset is entered in one row order.
SampleMatrices ==
    {x \in UNION {[1..d -> [1..n -> Values]] : d \in Dimensions, n \in 0..MaxRows} :
        \A r \in 1..(Len(x[1]) - 1) : RowLe(x, r, r + 1, 1)}

\* a supplied per-dimension tuple of the wrong length: one short, one long
WrongLengths(d) == {d - 1, d + 1}

\* the optional arguments, each omitted or a tuple with one entry per dimension
WellFormedArguments(x) ==
    [dimension_bandwidths :
        {None, Some(chosen_bandwidths(x, None)), Some(Tup(Len(x), << 1, 1 >>))},
     dimension_bandwidth_factors :
        {None} \cup {Some(Tup(Len(x), f)) : f \in {<< 2, 1 >>, << 0, 1 >>, << -1, 1 >>}},
     dimension_grid_mins : {None, Some(Tup(Len(x), Some(-1)))},
     dimension_grid_maxs : {None, Some(Tup(Len(x), Some(3)))},
     dimension_fraction_grid_extensions : {None, Some(Tup(Len(x), << 0, 1 >>))},
     dimension_n_grids :
        {None, Some(SubSeq(<< 3, 4, 2 >>, 1, Len(x)))}
            \cup {Some(Tup(Len(x), g)) : g \in {-1, 0}}]

\* the same with one argument replaced by a tuple of the wrong length
MisSizedArguments(x) ==
    UNION {
        {[a EXCEPT !.dimension_bandwidths = Some(Tup(L, << 1, 1 >>))],
         [a EXCEPT !.dimension_bandwidth_factors = Some(Tup(L, << 2, 1 >>))],
         [a EXCEPT !.dimension_grid_mins = Some(Tup(L, Some(-1)))],
         [a EXCEPT !.dimension_grid_maxs = Some(Tup(L, Some(3)))],
         [a EXCEPT !.dimension_fraction_grid_extensions = Some(Tup(L, << 0, 1 >>))],
         [a EXCEPT !.dimension_n_grids = Some(SubSeq(<< 3, 4, 2 >>, 1, L))]}
        : a \in WellFormedArguments(x), L \in WrongLengths(Len(x))}

Arguments(x) == WellFormedArguments(x) \cup MisSizedArguments(x)

GridIdle ==
    /\ vector = None
    /\ grid_min = None
    /\ grid_max = None
    /\ fraction_grid_extension = None
    /\ n_grid = 0
    /\ grid = None

EstimateIdle ==
    /\ element_x_dimension = None
    /\ args = None

DropIdle ==
    /\ table = None
    /\ ke = 0
    /\ ax_argument = None
    /\ da = None
    /\ sh1 = None
    /\ ax = 0
    /\ re = FALSE
    /\ drop_calls = 0

LocalsUnset ==
    /\ dimension_bandwidths = None
    /\ dimension_grid_mins = None
    /\ dimension_grid_maxs = None
    /\ dimension_fraction_grid_extensions = None
    /\ dimension_n_grids = None
    /\ dimension_grids = None
    /\ mesh_grid_point_x_dimension = None
    /\ mesh_grid_point_kernel_density = None

(***************************************************************************)
(* A call of make_vector_grid (src/kraft/make_vector_grid.py).             *)
(***************************************************************************)
InitGrid ==
    /\ pc = "make_vector_grid"
    /\ vector \in UNION {[1..n -> GridValues] : n \in 0..MaxVectorLen}
    /\ grid_min \in GridOverrides
    /\ grid_max \in GridOverrides
    /\ fraction_grid_extension \in GridFractions
    /\ n_grid \in -1..MaxNGrid
    /\ grid = None
    /\ EstimateIdle
    /\ LocalsUnset
    /\ DropIdle

MakeVectorGrid ==
    /\ pc = "make_vector_grid"
    /\ LET r == make_vector_grid(vector, grid_min, grid_max,
                                 fraction_grid_extension, n_grid)
       IN  \/ /\ r.err
              /\ pc' = "grid_error"
              /\ grid' = grid
           \/ /\ ~r.err
              /\ pc' = "grid_done"
              /\ grid' = Some(r.grid)
    /\ UNCHANGED << vector, grid_min, grid_max, fraction_grid_extension, n_grid >>
    /\ UNCHANGED << argument_vars, local_vars, drop_vars >>

NextGrid == MakeVectorGrid

SpecGrid == InitGrid /\ [][NextGrid]_vars

(***************************************************************************)
(* A call of estimate_element_x_dimension_kernel_density.                  *)
(***************************************************************************)
Init ==
    /\ pc = "bandwidths"
    /\ element_x_dimension \in SampleMatrices
    /\ args \in Arguments(element_x_dimension)
    /\ GridIdle
    /\ LocalsUnset
    /\ DropIdle

\* lines 24-38
ResolveBandwidths ==
    /\ pc = "bandwidths"
    /\ LET r == resolve_bandwidths(element_x_dimension, args.dimension_bandwidths,
                                   args.dimension_bandwidth_factors)
       IN  \/ /\ r.err
              /\ pc' = "error"
              /\ UNCHANGED dimension_bandwidths
           \/ /\ ~r.err
              /\ pc' = "options"
              /\ dimension_bandwidths' = Some(r.val)
    /\ UNCHANGED << drop_vars, grid_vars, argument_vars, dimension_grid_mins, dimension_grid_maxs,
                    dimension_fraction_grid_extensions, dimension_n_grids,
                    dimension_grids, mesh_grid_point_x_dimension,
                    mesh_grid_point_kernel_density >>

\* lines 40-56
ResolveGridOptions ==
    /\ pc = "options"
    /\ pc' = "mesh"
    /\ dimension_grid_mins' =
           Some(option_or_default(element_x_dimension, args.dimension_grid_mins, None))
    /\ dimension_grid_maxs' =
           Some(option_or_default(element_x_dimension, args.dimension_grid_maxs, None))
    /\ dimension_fraction_grid_extensions' =
           Some(option_or_default(element_x_dimension,
                                  args.dimension_fraction_grid_extensions,
                                  DIMENSION_FRACTION_GRID_EXTENSION))
    /\ dimension_n_grids' =
           Some(option_or_default(element_x_dimension, args.dimension_n_grids,
                                  DIMENSION_N_GRID))
    /\ UNCHANGED << drop_vars, grid_vars, argument_vars, dimension_bandwidths, dimension_grids,
                    mesh_grid_point_x_dimension, mesh_grid_point_kernel_density >>

\* lines 58-69
MakeMeshGrid ==
    /\ pc = "mesh"
    /\ LET calls == dimension_grid_calls(element_x_dimension,
                        Get(dimension_grid_mins), Get(dimension_grid_maxs),
                        Get(dimension_fraction_grid_extensions), Get(dimension_n_grids))
           grids == [i \in 1..Len(calls) |-> calls[i].grid]
       IN  \/ /\ \E i \in 1..Len(calls) : calls[i].err
              /\ pc' = "error"
              /\ UNCHANGED << dimension_grids, mesh_grid_point_x_dimension >>
           \/ /\ \A i \in 1..Len(calls) : ~calls[i].err
              /\ pc' = "kde"
              /\ dimension_grids' = Some(grids)
              /\ mesh_grid_point_x_dimension' =
                     Some(make_mesh_grid_point_x_dimension(grids))
    /\ UNCHANGED << drop_vars, grid_vars, argument_vars, dimension_bandwidths, dimension_grid_mins,
                    dimension_grid_maxs, dimension_fraction_grid_extensions,
                    dimension_n_grids, mesh_grid_point_kernel_density >>

\* lines 71-77
EvaluateKernelDensity ==
    /\ pc = "kde"
    /\ \/ /\ fftkde_raises(element_x_dimension, Get(dimension_bandwidths))
          /\ pc' = "error"
          /\ UNCHANGED mesh_grid_point_kernel_density
       \/ /\ ~fftkde_raises(element_x_dimension, Get(dimension_bandwidths))
          /\ pc' = "plot"
          /\ mesh_grid_point_kernel_density' =
                 Some(evaluate_kernel_density(element_x_dimension,
                                              Get(dimension_bandwidths),
                                              Get(mesh_grid_point_x_dimension)))
    /\ UNCHANGED << drop_vars, grid_vars, argument_vars, dimension_bandwidths, dimension_grid_mins,
                    dimension_grid_maxs, dimension_fraction_grid_extensions,
                    dimension_n_grids, dimension_grids, mesh_grid_point_x_dimension >>

\* lines 79-88
Return ==
    /\ pc = "plot"
    /\ pc' = "done"
    /\ UNCHANGED << drop_vars, grid_vars, argument_vars, local_vars >>

Next ==
    \/ ResolveBandwidths
    \/ ResolveGridOptions
    \/ MakeMeshGrid
    \/ EvaluateKernelDensity
    \/ Return

Spec == Init /\ [][Next]_vars

(***************************************************************************)
(* A call of drop_until.  The loop is sequential code: once entered it     *)
(* takes its next step, which is the fairness SpecDrop states.             *)
(***************************************************************************)
InitDrop ==
    /\ pc = "drop_until"
    /\ \E r \in 0..MaxDropRows, c \in 0..MaxDropColumns :
           /\ table \in [1..r -> [1..c -> {0, 1}]]
           /\ da = [rows |-> 1..r, columns |-> 1..c]
    /\ ke \in {0, 1, 2}
    /\ ax_argument \in {None, Some(0), Some(1)}
    /\ sh1 = None
    /\ ax = 0
    /\ re = FALSE
    /\ drop_calls = 0
    /\ GridIdle
    /\ EstimateIdle
    /\ LocalsUnset

\* lines 6-12
DropUntilEnter ==
    /\ pc = "drop_until"
    /\ pc' = "while"
    /\ sh1' = shape(da)
    /\ ax' = starting_axis(ax_argument, shape(da))
    /\ re' = FALSE
    /\ UNCHANGED << table, ke, ax_argument, da, drop_calls >>
    /\ UNCHANGED << grid_vars, argument_vars, local_vars >>

\* lines 14-34: one pass of the loop
DropUntilPass ==
    /\ pc = "while"
    /\ da' = drop(table, da, ax, ke)
    /\ drop_calls' = IF drop_calls < DropCallCap THEN drop_calls + 1 ELSE drop_calls
    /\ \/ /\ returns_now(re, sh1, shape(da'))
          /\ pc' = "returned"
          /\ UNCHANGED << sh1, ax, re >>
       \/ /\ ~returns_now(re, sh1, shape(da'))
          /\ pc' = "while"
          /\ sh1' = shape(da')
          /\ ax' = next_axis(ax)
          /\ re' = TRUE
    /\ UNCHANGED << table, ke, ax_argument >>
    /\ UNCHANGED << grid_vars, argument_vars, local_vars >>

NextDrop == DropUntilEnter \/ DropUntilPass

SpecDrop == InitDrop /\ [][NextDrop]_vars /\ WF_vars(NextDrop)

(***************************************************************************)
(* Claims about make_vector_grid, under SpecGrid.                          *)
(***************************************************************************)
\* the min and max the claims speak of: the override when given, else the
\* column's least and greatest value
EffectiveMin == FromInt(IF grid_min = None THEN vector_min(vector) ELSE Get(grid_min))

EffectiveMax == FromInt(IF grid_max = None THEN vector_max(vector) ELSE Get(grid_max))

EffectiveExtension == FMul(FSub(EffectiveMax, EffectiveMin), fraction_grid_extension)

LowEnd == FSub(EffectiveMin, EffectiveExtension)

HighEnd == FAdd(EffectiveMax, EffectiveExtension)

EvenlySpaced(g) ==
    \A k \in 1..(Len(g) - 2) : FSub(g[k + 1], g[k]) = FSub(g[k + 2], g[k + 1])

StrictlyIncreasing(g) == \A k \in 1..(Len(g) - 1) : FLt(g[k], g[k + 1])

\* the specification's example: min = 0, max = 10, fraction = 0.1, n_grid = 5
IsExample ==
    /\ EffectiveMin = FromInt(0)
    /\ EffectiveMax = FromInt(10)
    /\ fraction_grid_extension = << 1, 10 >>
    /\ n_grid = 5

ExampleGrid == << FromInt(-1), FromInt(2), FromInt(5), FromInt(8), FromInt(11) >>

\* C1 as stated: the returned grid has n_grid evenly spaced points, the first
\* min - (max - min) * fraction and the last max + (max - min) * fraction, for
\* every n_grid that returns a point; the example gives [-1, 2, 5, 8, 11].
C1_AsStated ==
    pc = "grid_done" =>
        /\ Len(Get(grid)) = n_grid
        /\ EvenlySpaced(Get(grid))
        /\ n_grid >= 1 =>
               /\ Get(grid)[1] = LowEnd
               /\ Get(grid)[n_grid] = HighEnd
        /\ IsExample => Get(grid) = ExampleGrid

\* C1, amended: the returned grid has n_grid evenly spaced points; its first
\* point is min - (max - min) * fraction whenever n_grid >= 1, and its last
\* point is max + (max - min) * fraction when n_grid >= 2 (with n_grid = 1 the
\* one point returned is the low end); the example gives [-1, 2, 5, 8, 11].
C1_GridEndpoints ==
    pc = "grid_done" =>
        /\ Len(Get(grid)) = n_grid
        /\ EvenlySpaced(Get(grid))
        /\ n_grid >= 1 => Get(grid)[1] = LowEnd
        /\ n_grid >= 2 => Get(grid)[n_grid] = HighEnd
        /\ IsExample => Get(grid) = ExampleGrid

\* the example's call has returned, its min empirical and its max supplied
C1_Witness ==
    /\ pc = "grid_done"
    /\ IsExample
    /\ grid_min = None
    /\ grid_max = Some(10)
    /\ Get(grid) = ExampleGrid

\* the spacing C2 names: ((max + ext) - (min - ext)) / (n_grid - 1)
NamedSpacing == FDiv(FSub(HighEnd, LowEnd), FromInt(n_grid - 1))

HasNamedSpacing(g) == \A k \in 1..(Len(g) - 1) : FSub(g[k + 1], g[k]) = NamedSpacing

\* C2 as stated: every returned grid is strictly increasing, has length
\* n_grid and constant spacing ((max + ext) - (min - ext)) / (n_grid - 1).
C2_AsStated ==
    pc = "grid_done" =>
        /\ StrictlyIncreasing(Get(grid))
        /\ Len(Get(grid)) = n_grid
        /\ HasNamedSpacing(Get(grid))

\* C2, amended: every returned grid has length n_grid and constant spacing
\* ((max + ext) - (min - ext)) / (n_grid - 1); with two or more points it is
\* strictly increasing exactly when that spacing is positive, that is when
\* (max - min) * (1 + 2 * fraction) > 0, so not for a constant column.
C2_GridSpacing ==
    pc = "grid_done" =>
        /\ Len(Get(grid)) = n_grid
        /\ HasNamedSpacing(Get(grid))
        /\ n_grid >= 2 =>
               (StrictlyIncreasing(Get(grid)) <=> FLt(LowEnd, HighEnd))
        /\ (n_grid >= 2 /\ EffectiveMin = EffectiveMax) =>
               ~StrictlyIncreasing(Get(grid))

\* a grid of three or more points over a column that is not constant
C2_Witness ==
    /\ pc = "grid_done"
    /\ n_grid >= 3
    /\ grid_min = None
    /\ grid_max = None
    /\ FLt(EffectiveMin, EffectiveMax)
    /\ StrictlyIncreasing(Get(grid))
    /\ HasNamedSpacing(Get(grid))

(***************************************************************************)
(* Claims about estimate_element_x_dimension_kernel_density, under Spec.   *)
(***************************************************************************)
\* the call has returned its (Mesh Grid, Density Surface) pair
Returned == pc = "done"

Mesh == Get(mesh_grid_point_x_dimension)

Density == Get(mesh_grid_point_kernel_density)

\* what the kernel evaluation produced, before the clamp
KernelValues ==
    fftkde_evaluate(element_x_dimension, Get(dimension_bandwidths), Mesh)

NDimension == Len(element_x_dimension)

NElement == Len(element_x_dimension[1])

OptionNames ==
    {"dimension_bandwidths", "dimension_bandwidth_factors", "dimension_grid_mins",
     "dimension_grid_maxs", "dimension_fraction_grid_extensions", "dimension_n_grids"}

\* C3: every returned density value is at least ALMOST_ZERO, and every
\* kernel value already above ALMOST_ZERO is returned unchanged.
C3_FloorClamp ==
    Returned =>
        \A k \in 1..Len(Density) :
            /\ FLe(ALMOST_ZERO, Density[k])
            /\ FLt(ALMOST_ZERO, KernelValues[k]) => Density[k] = KernelValues[k]

\* C4: no returned density value is NaN or infinite.
C4_DensityFinite ==
    Returned => \A k \in 1..Len(Density) : IsFinite(Density[k])

\* C5: a call with a supplied per-dimension tuple whose length is not the
\* column count d, shorter or longer, fails and returns no result.
C5_LengthMismatchFails ==
    (\E o \in OptionNames : args[o] # None /\ Len(Get(args[o])) # NDimension)
        => ~Returned

\* C6: a call with a Sample Matrix of fewer than 2 rows fails and returns
\* no pair, whether or not bandwidths are supplied.
C6_FewRowsFail == NElement < 2 => ~Returned

\* C7: the bandwidth handed to the kernel evaluation is strictly positive
\* for every dimension, whatever factor was applied.
C7_BandwidthPositive ==
    pc \in {"kde", "plot", "done"} =>
        \A i \in 1..Len(Get(dimension_bandwidths)) :
            FLt(FromInt(0), Get(dimension_bandwidths)[i])

\* column i of the Sample Matrix holds one value throughout
ConstantColumn(i) ==
    /\ NElement >= 1
    /\ \A r \in 1..NElement : element_x_dimension[i][r] = element_x_dimension[i][1]

\* the call C8 is about: some column is constant, nothing overrides the grid
\* ends or the estimated bandwidths, and the extension fractions and
\* resolutions are the defaults or tuples the call can index
C8_Case ==
    /\ \E i \in 1..NDimension : ConstantColumn(i)
    /\ args.dimension_bandwidths = None
    /\ args.dimension_bandwidth_factors = None
    /\ args.dimension_grid_mins = None
    /\ args.dimension_grid_maxs = None
    /\ args.dimension_fraction_grid_extensions # None =>
           Len(Get(args.dimension_fraction_grid_extensions)) >= NDimension
    /\ args.dimension_n_grids # None =>
           /\ Len(Get(args.dimension_n_grids)) >= NDimension
           /\ \A i \in 1..NDimension : Get(args.dimension_n_grids)[i] >= 0

\* C8: for a constant column with no overrides the call raises no error, the
\* column's grid is n_grid copies of the column's value, and every returned
\* density value is at least ALMOST_ZERO.
C8_ConstantColumn ==
    C8_Case =>
        /\ pc # "error"
        /\ dimension_grids # None =>
               \A i \in 1..NDimension :
                   ConstantColumn(i) =>
                       Get(dimension_grids)[i] =
                           Tup(Get(dimension_n_grids)[i],
                               FromInt(element_x_dimension[i][1]))
        /\ Returned => \A k \in 1..Len(Density) : FLe(ALMOST_ZERO, Density[k])

\* a two-column matrix with a constant second column has returned a density
\* over a mesh of more than one point
C8_Witness ==
    /\ C8_Case
    /\ Returned
    /\ NDimension = 2
    /\ NElement = 2
    /\ ConstantColumn(2)
    /\ ~ConstantColumn(1)
    /\ Len(Density) > 1

RECURSIVE ProductOfNGrids(_, _)
ProductOfNGrids(n_grids, i) ==
    IF i > NDimension THEN 1 ELSE n_grids[i] * ProductOfNGrids(n_grids, i + 1)

\* C9: the returned Mesh Grid has as many points as the product of the
\* per-dimension grid lengths (3 and 4 give 12), and the Density Surface has
\* one entry per mesh point, entry k the clamped kernel density at point k.
C9_MeshAndDensityAligned ==
    Returned =>
        /\ \A i \in 1..NDimension :
               Len(Get(dimension_grids)[i]) = Get(dimension_n_grids)[i]
        /\ Len(Mesh) = ProductOfNGrids(Get(dimension_n_grids), 1)
        /\ (NDimension = 2 /\ Get(dimension_n_grids)[1] = 3
                /\ Get(dimension_n_grids)[2] = 4) => Len(Mesh) = 12
        /\ Len(Density) = Len(Mesh)
        /\ \A k \in 1..Len(Mesh) :
               /\ Len(Mesh[k]) = NDimension
               /\ Density[k] =
                      FMaximum(kernel_density_at(element_x_dimension,
                                                 Get(dimension_bandwidths), Mesh[k]),
                               ALMOST_ZERO)

\* two dimensions with grids of 3 and 4 points: 12 mesh points, 12 densities
C9_Witness ==
    /\ Returned
    /\ NDimension = 2
    /\ Len(Get(dimension_grids)[1]) = 3
    /\ Len(Get(dimension_grids)[2]) = 4
    /\ Len(Mesh) = 12
    /\ Len(Density) = 12

\* the same call with dimension_bandwidths omitted
CallWithBandwidthsOmitted ==
    estimate_element_x_dimension_kernel_density(
        element_x_dimension, [args EXCEPT !.dimension_bandwidths = None])

BandwidthsAreTheEstimates ==
    args.dimension_bandwidths = Some(chosen_bandwidths(element_x_dimension, None))

\* C10: a call whose explicit dimension_bandwidths are the Bandwidth
\* Estimator's values ends as the call with dimension_bandwidths omitted
\* does: the same failure, or the same (Mesh Grid, Density Surface) pair.
C10_ExplicitEstimateSameOutput ==
    BandwidthsAreTheEstimates =>
        /\ pc = "error" => CallWithBandwidthsOmitted.err
        /\ Returned =>
               /\ ~CallWithBandwidthsOmitted.err
               /\ CallWithBandwidthsOmitted.mesh = Mesh
               /\ CallWithBandwidthsOmitted.density = Density

\* explicit estimates, scaled by a factor of 2, over a column that is not
\* constant: the call has returned a density over the mesh
C10_Witness ==
    /\ BandwidthsAreTheEstimates
    /\ args.dimension_bandwidth_factors = Some(Tup(NDimension, << 2, 1 >>))
    /\ Returned
    /\ NElement = 2
    /\ ~ConstantColumn(1)
    /\ Len(Density) > 1

\* the bandwidth C11 names for dimension i, before any factor
NamedBandwidth(i) ==
    IF args.dimension_bandwidths = None
    THEN compute_vector_bandwidth(element_x_dimension[i])
    ELSE Get(args.dimension_bandwidths)[i]

\* the same after the factor, applied exactly when factors are given
NamedScaledBandwidth(i) ==
    IF args.dimension_bandwidth_factors = None THEN NamedBandwidth(i)
    ELSE FMul(NamedBandwidth(i), Get(args.dimension_bandwidth_factors)[i])

BandwidthsResolved == pc \in {"options", "mesh", "kde", "plot", "done"}

GridOptionsResolved == pc \in {"mesh", "kde", "plot", "done"}

\* C11: once resolved, the bandwidth of every dimension i is the supplied
\* dimension_bandwidths[i], else compute_vector_bandwidth(column i), times
\* dimension_bandwidth_factors[i] exactly when factors are given; and every
\* omitted grid option is its default for every dimension: no min, no max,
\* DIMENSION_FRACTION_GRID_EXTENSION, DIMENSION_N_GRID.
C11_ResolvedBandwidthsAndDefaults ==
    /\ BandwidthsResolved =>
           /\ (args.dimension_bandwidths = None
                   \/ args.dimension_bandwidth_factors # None)
                  => Len(Get(dimension_bandwidths)) = NDimension
           /\ args.dimension_bandwidth_factors = None
                  => Len(Get(dimension_bandwidths)) =
                         (IF args.dimension_bandwidths = None THEN NDimension
                          ELSE Len(Get(args.dimension_bandwidths)))
           /\ \A i \in 1..NDimension :
                  i <= Len(Get(dimension_bandwidths)) =>
                      Get(dimension_bandwidths)[i] = NamedScaledBandwidth(i)
    /\ GridOptionsResolved =>
           /\ args.dimension_grid_mins = None =>
                  Get(dimension_grid_mins) = Tup(NDimension, None)
           /\ args.dimension_grid_maxs = None =>
                  Get(dimension_grid_maxs) = Tup(NDimension, None)
           /\ args.dimension_fraction_grid_extensions = None =>
                  Get(dimension_fraction_grid_extensions) =
                      Tup(NDimension, DIMENSION_FRACTION_GRID_EXTENSION)
           /\ args.dimension_n_grids = None =>
                  Get(dimension_n_grids) = Tup(NDimension, DIMENSION_N_GRID)

\* two columns, supplied bandwidths that are not the estimates, a factor of 2
\* and every grid option omitted: the call has returned
C11_Witness ==
    /\ Returned
    /\ NDimension = 2
    /\ args.dimension_bandwidths # None
    /\ ~BandwidthsAreTheEstimates
    /\ args.dimension_bandwidth_factors = Some(Tup(2, << 2, 1 >>))
    /\ Get(dimension_bandwidths) = Tup(2, << 2, 1 >>)
    /\ args.dimension_grid_mins = None
    /\ args.dimension_grid_maxs = None
    /\ args.dimension_fraction_grid_extensions = None
    /\ args.dimension_n_grids = None
    /\ Len(Mesh) = DIMENSION_N_GRID * DIMENSION_N_GRID


(***************************************************************************)
(* Claims about drop_until, under SpecDrop.                                *)
(***************************************************************************)
DropReturned == pc = "returned"

\* the shape of the table handed to drop_until
GivenShape ==
    << Cardinality(DOMAIN table),
       IF DOMAIN table = {} THEN Cardinality(da.columns)
       ELSE Cardinality(DOMAIN table[1]) >>

\* a pass of the loop that is followed by another drop call
PassThatGoesOn == pc = "while" /\ pc' = "while"

\* C12: drop_until terminates for every 2-D table and every starting axis
\* in {0, 1} (or None), drop never growing the shape: every call reaches a
\* pass after which it returns, and between successive drop calls the axis
\* goes from 0 to 1 or from 1 to 0.
C12_TerminatesAlternating ==
    /\ <>DropReturned
    /\ [][PassThatGoesOn => (ax \in {0, 1} /\ ax' = 1 - ax)]_vars

\* a call that returned after four drop calls or more, having removed rows
\* and columns
C12_Witness ==
    /\ DropReturned
    /\ drop_calls >= 4
    /\ shape(da)[1] < GivenShape[1]
    /\ shape(da)[2] < GivenShape[2]

====
